---- MODULE Spec2Model ----
(***************************************************************************)
(* A model of streamer/streamer.py: the StreamListener callbacks (on_data, *)
(* should_stop, the per-category handlers, on_error) and the reconnect     *)
(* loop of process_tweets.  The tweepy transport is the environment: it    *)
(* connects, delivers raw messages to on_data, reports HTTP errors to      *)
(* on_error and raises exceptions into process_tweets.                     *)
(* The command-line conversion duration_type and the alias lookup are      *)
(* modelled as functions and applied on their own in ConvSpec; LiveSpec is *)
(* the session with a stream that keeps delivering.                        *)
(***************************************************************************)
EXTENDS Integers, Sequences, FiniteSets

\* ---------------------------------------------------------------- bounds
MaxTicks == 2         \* the clock ticks at most MaxTicks times between sleeps
MaxDuration == 2      \* --duration is None or 0..MaxDuration seconds
MaxTweets == 1        \* --max-tweets is None or 0..MaxTweets
MaxStatus == 2        \* at most MaxStatus status records pass the filter
MaxCalls == 3         \* at most MaxCalls calls of streamer.filter
MaxDigits == 2        \* a duration argument has at most MaxDigits digits
RecursionLimit == 4   \* frames the interpreter allows a recursion (it
                      \* allows more frames than an alias table has names)

\* ------------------------------------------------------ program constants
None == -1            \* Python's None for an optional non-negative integer
StartTime == 1        \* int(time.time()) when the process starts (positive)
SLEEP_SECS == 5       \* time.sleep(5)
UNAUTHORIZED == 401   \* the one status code on_error does not stop on
MISSING_FIELD_VALUE == ""

\* Python truth value of an optional integer: None and 0 are both false.
Truthy(x) == x /= None /\ x /= 0

\* ------------------------------------------------------------- messages
\* The discriminant substrings of the recognizers, in declared order.
STATUS_KEY == "\"in_reply_to_user_id_str\":"
LIMIT_KEY == "\"limit\":{"
WARNING_KEY == "\"warning\":"
DISCONNECT_KEY == "\"disconnect\":"
MatchStrings == {STATUS_KEY, LIMIT_KEY, WARNING_KEY, DISCONNECT_KEY}

\* Texts of a status, as character sequences.
Texts ==
  { <<"R", "T", " ", "x">>,
    <<"h", "i">>,
    <<"a", " ", "R", "T", " ", "b">>,
    <<"R", "T", "x">> }

Langs == {"en", "fr"}

\* A raw message: which discriminant substrings its text contains, whether
\* json.loads accepts it, and (when it decodes as a status) the status.
\*   fields_found : the status has a place, so that the path "place.name"
\*                  resolves; every status has a text
\*   encodable    : csv_writer.writerow can encode the row
Tweets ==
  [ retweeted_status : BOOLEAN, text : Texts, lang : Langs,
    fields_found : BOOLEAN, encodable : BOOLEAN ]

PlainTweet ==
  [ retweeted_status |-> FALSE, text |-> <<"h", "i">>, lang |-> "en",
    fields_found |-> TRUE, encodable |-> TRUE ]

\* The statuses of the model: the filter's inputs vary on a status whose
\* fields resolve and encode, and the other way round.
SomeTweets ==
  { t \in Tweets :
      \/ t.fields_found /\ t.encodable
      \/ ~t.retweeted_status /\ t.text = <<"h", "i">> /\ t.lang = "en" }

RawMessages ==
  { m \in [ contains : SUBSET MatchStrings, json_ok : BOOLEAN,
            tweet : SomeTweets ] :
      (m.contains /= {STATUS_KEY} \/ ~m.json_ok) => m.tweet = PlainTweet }

\* ------------------------------------------------------- pure functions
\* LOCATION_QUERY_MACROS: a name maps to a bounding box or to another name.
MacroNames == {"any", "all", "global", "usa", "contintental_usa"}
IsAlias(name) == name \in {"all", "global", "contintental_usa"}
AliasOf(name) == IF name = "contintental_usa" THEN "usa" ELSE "any"
BoxOf(name) ==
  IF name = "any" THEN <<"-180", "-90", "180", "90">>
  ELSE <<"-124.848974", "24.396308", "-66.885444", "49.384358">>

\* str.lower() on the location names of the model.
Lower(name) ==
  CASE name = "ALL" -> "all"
    [] name = "Usa" -> "usa"
    [] name = "A" -> "a"
    [] OTHER -> name

RECURSIVE lookup_location_query_macro(_)
lookup_location_query_macro(name) ==
  LET key == Lower(name) IN
  IF key \notin MacroNames THEN <<>>
  ELSE IF IsAlias(key) THEN lookup_location_query_macro(AliasOf(key))
  ELSE BoxOf(key)

\* lookup_location_query_macro with the table it reads as a parameter: a
\* table maps a name to "<box>" (a list of coordinates), to "<absent>" (no
\* entry) or to a name.  Every call takes a frame; past the interpreter's
\* limit the call raises RuntimeError (maximum recursion depth exceeded).
RECURSIVE lookup_location_query_macro_in(_, _, _)
lookup_location_query_macro_in(table, name, frames) ==
  IF frames > RecursionLimit THEN <<"RuntimeError">>
  ELSE LET key == Lower(name)
           resolved == IF key \in DOMAIN table THEN table[key] ELSE "<absent>"
       IN
       IF resolved = "<absent>" THEN <<"None">>
       ELSE IF resolved = "<box>" THEN <<"box", key>>
       ELSE lookup_location_query_macro_in(table, resolved, frames + 1)

\* ---------------------------------------------------------- duration_type
\* Strings are character sequences here.
IsSpace(c) == c = " "
Digits == {"0", "1", "2", "3", "4", "5", "6", "7", "8", "9"}
DigitValue(c) ==
  CASE c = "0" -> 0 [] c = "1" -> 1 [] c = "2" -> 2 [] c = "3" -> 3
    [] c = "4" -> 4 [] c = "5" -> 5 [] c = "6" -> 6 [] c = "7" -> 7
    [] c = "8" -> 8 [] OTHER -> 9
LowerChar(c) ==
  CASE c = "S" -> "s" [] c = "M" -> "m" [] c = "H" -> "h" [] c = "D" -> "d"
    [] OTHER -> c

\* value.strip()
RECURSIVE strip(_)
strip(value) ==
  IF value = <<>> THEN value
  ELSE IF IsSpace(Head(value)) THEN strip(Tail(value))
  ELSE IF IsSpace(value[Len(value)])
    THEN strip(SubSeq(value, 1, Len(value) - 1))
  ELSE value

\* The number of leading characters of value that are in the class.
RECURSIVE Leading(_, _)
Leading(value, class) ==
  IF value /= <<>> /\ Head(value) \in class
    THEN 1 + Leading(Tail(value), class)
    ELSE 0

\* int() of a sequence of digits.
RECURSIVE int(_)
int(digits) ==
  IF digits = <<>> THEN 0
  ELSE 10 * int(SubSeq(digits, 1, Len(digits) - 1))
         + DigitValue(digits[Len(digits)])

\* The character class [\ssmd] of the pattern: white space, s, m and d.
CodeClass == {" ", "s", "m", "d"}

\* secs = { ' ': 1, 's': 1, 'm': 60, 'h': 3600, 'd': 86400 }
secs(code) ==
  CASE code = " " -> 1 [] code = "s" -> 1 [] code = "m" -> 60
    [] code = "h" -> 3600 [] OTHER -> 86400

\* duration_type: the seconds, or ArgumentTypeError when the padded,
\* lower-cased value does not begin with ^\d+[\ssmd]+ .
duration_type(value) ==
  LET padded == strip(value) \o <<" ">>
      lowered == [i \in 1..Len(padded) |-> LowerChar(padded[i])]
      n == Leading(lowered, Digits)
      rest == SubSeq(lowered, n + 1, Len(lowered))
      k == Leading(rest, CodeClass)
  IN
  IF n >= 1 /\ k >= 1
    THEN [error |-> "", seconds |-> int(SubSeq(lowered, 1, n)) * secs(rest[1])]
    ELSE [error |-> "ArgumentTypeError", seconds |-> None]

\* api.geo_search(query=...): the places the remote collaborator returns.
geo_search(query) ==
  CASE query = "paris" ->
         << [full_name |-> "Paris, France", bounding_box |-> <<>>],
            [full_name |-> "Paris",
             bounding_box |-> <<"2.2", "48.8", "2.4", "48.9">>] >>
    [] query = "nowhere" ->
         << [full_name |-> "Nowhere", bounding_box |-> <<>>] >>
    [] OTHER -> <<>>

\* full_name.replace(' ', '').lower() of the places above.
Normalized(full_name) ==
  CASE full_name = "Paris, France" -> "paris,france"
    [] full_name = "Paris" -> "paris"
    [] full_name = "Nowhere" -> "nowhere"
    [] OTHER -> full_name

\* The loop over the places: the first place whose normalized name equals
\* the query returns its box, or raises ValueError when it has none; no
\* matching place raises ValueError too.
RECURSIVE FirstMatchingPlace(_, _, _)
FirstMatchingPlace(places, i, query) ==
  IF i > Len(places) THEN [error |-> "No such place", box |-> <<>>]
  ELSE IF Normalized(places[i].full_name) = Lower(query)
    THEN IF places[i].bounding_box /= <<>>
           THEN [error |-> "", box |-> places[i].bounding_box]
           ELSE [error |-> "no bounding box", box |-> <<>>]
  ELSE FirstMatchingPlace(places, i + 1, query)

location_query_to_location_filter(location_query) ==
  LET t == lookup_location_query_macro(location_query) IN
  IF t /= <<>> THEN [error |-> "", box |-> t]
  ELSE FirstMatchingPlace(geo_search(location_query), 1, location_query)

\* map(float, opts.locations): float() raises ValueError on a non-number.
IsFloat(s) == s /= "x"
FloatsOk(locations) == \A i \in 1..Len(locations) : IsFloat(locations[i])

\* make_filter_args with a failed location query falling back on
\* opts.locations instead of raising.
make_filter_args_unresolved(o) ==
  LET q == location_query_to_location_filter(o.location_query) IN
  IF o.locations /= <<>> /\ ~FloatsOk(o.locations)
    THEN [error |-> "could not convert string to float", track |-> FALSE,
          stall_warnings |-> FALSE, locations |-> <<>>]
  ELSE [error |-> "",
        track |-> o.track,
        stall_warnings |-> o.stall_warnings,
        locations |-> IF o.location_query /= "" /\ q.error = ""
                        THEN q.box ELSE o.locations]

\* kwargs of streamer.filter, or the ValueError raised while building them.
make_filter_args(o) ==
  LET q == location_query_to_location_filter(o.location_query) IN
  IF o.locations /= <<>> /\ ~FloatsOk(o.locations)
    THEN [error |-> "could not convert string to float", track |-> FALSE,
          stall_warnings |-> FALSE, locations |-> <<>>]
  ELSE IF o.location_query /= "" /\ q.error /= ""
    THEN [error |-> q.error, track |-> FALSE,
          stall_warnings |-> FALSE, locations |-> <<>>]
  ELSE [error |-> "",
        track |-> o.track,
        stall_warnings |-> o.stall_warnings,
        locations |-> IF o.location_query /= "" THEN q.box ELSE o.locations]

\* ------------------------------------------------------ StreamListener
\* should_stop: with a duration configured and a first message received the
\* duration test alone decides; otherwise the count test decides.
should_stop(o, fmr, t, count) ==
  IF Truthy(o.duration) /\ Truthy(fmr)
    THEN (t - fmr) >= o.duration
    ELSE Truthy(o.max_tweets) /\ count > o.max_tweets

\* tweet.text.startswith('RT ') and ' RT ' in tweet.text
StartsWith(text, prefix) ==
  Len(text) >= Len(prefix) /\ SubSeq(text, 1, Len(prefix)) = prefix
Contains(text, part) ==
  \E i \in 1..Len(text) :
    i + Len(part) - 1 <= Len(text) /\ SubSeq(text, i, i + Len(part) - 1) = part

\* is_retweet looking at the retweet-of reference alone.
is_retweet_by_reference(tweet) == tweet.retweeted_status

is_retweet(tweet) ==
  \/ tweet.retweeted_status
  \/ StartsWith(tweet.text, <<"R", "T", " ">>)
  \/ Contains(tweet.text, <<" ", "R", "T", " ">>)

\* tweet_matchp letting every status through.
tweet_matchp_everything(o, tweet) == TRUE

tweet_matchp(o, tweet) ==
  IF o.no_retweets /\ is_retweet(tweet) THEN FALSE
  ELSE IF o.user_lang /= {} THEN tweet.lang \in o.user_lang
  ELSE TRUE

\* A handler's outcome: what it returns ("None", "False", or "raise" when an
\* exception leaves it) and the listener fields and output it leaves behind.
\* row is what the handler wrote to the primary output, NoRow for nothing.
NoRow == <<>>
Outcome(ret, running, count, rows) ==
  [ret |-> ret, running |-> running, status_count |-> count, rows |-> rows,
   row |-> NoRow]
Written(out, row) == [out EXCEPT !.row = row]

\* utils.resolve_with_default(status, f, None): the value found at the dotted
\* path f (a stand-in names it), or AttributeError when a segment is absent.
resolve_with_default(tweet, f) ==
  IF f = "place.name" /\ ~tweet.fields_found
    THEN [error |-> "AttributeError", value |-> ""]
  ELSE IF f = "place.name" THEN [error |-> "", value |-> "<place.name>"]
  ELSE [error |-> "", value |-> "<text>"]

\* The loop over opts.fields without a terminating field: a field that does
\* not resolve gets MISSING_FIELD_VALUE and the loop goes on.
csvrow(fields, tweet) ==
  [i \in 1..Len(fields) |->
     LET v == resolve_with_default(tweet, fields[i]) IN
     IF v.error /= "" THEN MISSING_FIELD_VALUE ELSE v.value]

\* Some configured field does not resolve.
field_missing(fields, tweet) ==
  \E i \in 1..Len(fields) : resolve_with_default(tweet, fields[i]).error /= ""

\* print stream_data.strip(): the raw message as the one value written.
RawRow == <<"<stream_data>">>

\* The handler with opts.terminate_on_error not consulted: a missing field
\* always gets MISSING_FIELD_VALUE.
parse_status_and_dispatch_never_terminates(o, fmr, t, running, count, rows, data) ==
  IF ~data.json_ok THEN Outcome("raise", running, count, rows)
  ELSE IF ~tweet_matchp(o, data.tweet) THEN Outcome("None", running, count, rows)
  ELSE IF should_stop(o, fmr, t, count + 1)
    THEN Outcome("False", FALSE, count + 1, rows)
  ELSE IF o.fields = <<>>
    THEN Written(Outcome("None", running, count + 1, rows + 1), RawRow)
  ELSE IF ~data.tweet.encodable THEN Outcome("None", running, count + 1, rows)
  ELSE Written(Outcome("None", running, count + 1, rows + 1),
               csvrow(o.fields, data.tweet))

\* The lag report at the end of the handler only logs and is left out.
parse_status_and_dispatch(o, fmr, t, running, count, rows, data) ==
  IF ~data.json_ok THEN Outcome("raise", running, count, rows)
  ELSE IF ~tweet_matchp(o, data.tweet) THEN Outcome("None", running, count, rows)
  ELSE IF should_stop(o, fmr, t, count + 1)
    THEN Outcome("False", FALSE, count + 1, rows)
  ELSE IF o.fields = <<>>
    THEN Written(Outcome("None", running, count + 1, rows + 1), RawRow)
  ELSE IF field_missing(o.fields, data.tweet) /\ o.terminate_on_error
    THEN Outcome("False", FALSE, count + 1, rows)
  ELSE IF ~data.tweet.encodable THEN Outcome("None", running, count + 1, rows)
  ELSE Written(Outcome("None", running, count + 1, rows + 1),
               csvrow(o.fields, data.tweet))

parse_limit_and_dispatch(running, count, rows, data) ==
  IF ~data.json_ok THEN Outcome("raise", running, count, rows)
  ELSE Outcome("None", running, count, rows)

parse_warning_and_dispatch(running, count, rows, data) ==
  IF ~data.json_ok THEN Outcome("False", running, count, rows)
  ELSE Outcome("None", running, count, rows)

on_disconnect(running, count, rows, data) ==
  IF ~data.json_ok THEN Outcome("raise", running, count, rows)
  ELSE Outcome("None", running, count, rows)

on_unrecognized(running, count, rows, data) ==
  Outcome("None", running, count, rows)

\* self.recognizers, in decreasing priority order.
recognizers ==
  << [match_string |-> STATUS_KEY, handler_method |-> "parse_status_and_dispatch"],
     [match_string |-> LIMIT_KEY, handler_method |-> "parse_limit_and_dispatch"],
     [match_string |-> WARNING_KEY, handler_method |-> "parse_warning_and_dispatch"],
     [match_string |-> DISCONNECT_KEY, handler_method |-> "on_disconnect"],
     [match_string |-> "", handler_method |-> "on_unrecognized"] >>

\* DataContainsRecognizer.match / MatchAnyRecognizer.match
match(r, data) == r.match_string = "" \/ r.match_string \in data.contains

\* Recognizer.handle_message: the handler's return value is passed through.
handle_message(r, o, fmr, t, running, count, rows, data) ==
  CASE r.handler_method = "parse_status_and_dispatch" ->
         parse_status_and_dispatch(o, fmr, t, running, count, rows, data)
    [] r.handler_method = "parse_limit_and_dispatch" ->
         parse_limit_and_dispatch(running, count, rows, data)
    [] r.handler_method = "parse_warning_and_dispatch" ->
         parse_warning_and_dispatch(running, count, rows, data)
    [] r.handler_method = "on_disconnect" ->
         on_disconnect(running, count, rows, data)
    [] OTHER -> on_unrecognized(running, count, rows, data)

\* The loop with its return after the handler left out: every later
\* recognizer is still evaluated and every matching handler invoked.
RECURSIVE recognizer_loop_falls_through(_, _)
recognizer_loop_falls_through(i, data) ==
  IF i > Len(recognizers) THEN [evaluated |-> <<>>, invoked |-> <<>>]
  ELSE LET rest == recognizer_loop_falls_through(i + 1, data) IN
       [evaluated |-> <<i>> \o rest.evaluated,
        invoked |-> IF match(recognizers[i], data)
                      THEN <<i>> \o rest.invoked ELSE rest.invoked]

\* The loop of on_data over the recognizers from position i: which
\* recognizers had match() evaluated and which had their handler invoked.
RECURSIVE recognizer_loop(_, _)
recognizer_loop(i, data) ==
  IF i > Len(recognizers) THEN [evaluated |-> <<>>, invoked |-> <<>>]
  ELSE IF match(recognizers[i], data)
    THEN [evaluated |-> <<i>>, invoked |-> <<i>>]
  ELSE LET rest == recognizer_loop(i + 1, data) IN
       [evaluated |-> <<i>> \o rest.evaluated, invoked |-> rest.invoked]

\* A handler that returned False leaves running set but the read loop going
\* ("return" where on_data has "return False").
after_handler_reads_on(h) ==
  IF h.ret = "False"
    THEN Outcome("None", FALSE, h.status_count, h.rows)
    ELSE h

\* The end of on_data's loop body: a handler's False stops the listener and
\* is passed on to tweepy, anything else lets the stream go on.
after_handler(h) ==
  IF h.ret = "False"
    THEN Outcome("False", FALSE, h.status_count, h.rows)
    ELSE h

\* on_data stamping first_message_received on every message.
on_data_restamps(o, fmr, t, running, count, rows, data) ==
  LET fmr1 == t
      loop == recognizer_loop(1, data)
      h == IF loop.invoked = <<>> THEN Outcome("None", running, count, rows)
           ELSE handle_message(recognizers[loop.invoked[1]], o, fmr1, t,
                               running, count, rows, data)
  IN
  IF should_stop(o, fmr1, t, count)
    THEN [first_message_received |-> fmr1, entry_stop |-> TRUE,
          evaluated |-> <<>>, invoked |-> <<>>,
          out |-> Outcome("False", FALSE, count, rows)]
  ELSE [first_message_received |-> fmr1, entry_stop |-> FALSE,
        evaluated |-> loop.evaluated, invoked |-> loop.invoked,
        out |-> after_handler(h)]

\* on_data: the first-message timestamp, the entry stop-check, the dispatch.
\* entry_stop tells whether the entry stop-check fired.
on_data(o, fmr, t, running, count, rows, data) ==
  LET fmr1 == IF ~Truthy(fmr) THEN t ELSE fmr
      loop == recognizer_loop(1, data)
      h == IF loop.invoked = <<>> THEN Outcome("None", running, count, rows)
           ELSE handle_message(recognizers[loop.invoked[1]], o, fmr1, t,
                               running, count, rows, data)
  IN
  IF should_stop(o, fmr1, t, count)
    THEN [first_message_received |-> fmr1, entry_stop |-> TRUE,
          evaluated |-> <<>>, invoked |-> <<>>,
          out |-> Outcome("False", FALSE, count, rows)]
  ELSE [first_message_received |-> fmr1, entry_stop |-> FALSE,
        evaluated |-> loop.evaluated, invoked |-> loop.invoked,
        out |-> after_handler(h)]

\* on_error: any status code but 401 stops the listener.
on_error(running, status_code) ==
  IF status_code /= UNAUTHORIZED
    THEN [ret |-> "False", running |-> FALSE]
    ELSE [ret |-> "None", running |-> running]

\* ------------------------------------------------------- configuration
NoFields == <<>>
Options ==
  [ track : {TRUE},
    stall_warnings : BOOLEAN,
    locations : {<<>>, <<"1", "2", "3", "4">>, <<"1", "2", "x", "4">>},
    location_query : {"", "ALL", "paris", "nowhere", "atlantis"},
    duration : {None} \cup 0..MaxDuration,
    max_tweets : {None} \cup 0..MaxTweets,
    terminate_on_error : BOOLEAN,
    fields : {NoFields, <<"place.name", "text">>},
    no_retweets : BOOLEAN,
    user_lang : {{}, {"en"}} ]

\* The options of a run.  The location options and the filter options vary
\* with the other options at their defaults, the stop options vary freely.
DefaultLocation(o) == o.locations = <<>> /\ o.location_query = ""
DefaultFilter(o) == ~o.no_retweets /\ o.user_lang = {}
DefaultStop(o) == o.duration = None /\ o.max_tweets = None
DefaultLoop(o) == ~o.terminate_on_error /\ ~o.stall_warnings
DefaultOutput(o) == o.fields = NoFields
Configs ==
  { o \in Options :
      \/ DefaultLocation(o) /\ DefaultFilter(o) /\ DefaultLoop(o) /\ DefaultOutput(o)
      \/ DefaultLocation(o) /\ DefaultFilter(o) /\ DefaultStop(o)
           /\ (o.stall_warnings => DefaultOutput(o) /\ ~o.terminate_on_error)
      \/ DefaultFilter(o) /\ DefaultStop(o) /\ DefaultLoop(o) /\ DefaultOutput(o)
      \/ DefaultLocation(o) /\ DefaultStop(o) /\ DefaultLoop(o) /\ DefaultOutput(o) }

\* --------------------------------------------------------------- state
VARIABLES
  opts,                     \* the parsed command line
  tweepy_stall_warnings,    \* the installed tweepy accepts stall_warnings
  pc,                       \* Idle, Connecting, Streaming, Dispatched,
                            \* Sleeping, Terminated
  now,                      \* int(time.time())
  running,                  \* listener.running
  first_message_received,   \* listener.first_message_received
  status_count,             \* listener.status_count
  rows,                     \* records written to the primary output
  kwargs,                   \* the arguments of streamer.filter
  calls,                    \* calls of streamer.filter so far
  sleeps,                   \* calls of time.sleep so far
  ended,                    \* how the call of streamer.filter that has just
                            \* ended ended: "return" or the exception caught;
                            \* "" once the loop has gone round
  logged,                   \* what the except clause that caught it logged
                            \* as an error; "" for nothing
  last,                     \* what the call of on_data that has just returned
                            \* did; NoMessage once control has moved on
  call                      \* a call of a command-line conversion or of the
                            \* alias lookup on its own: function, arguments
                            \* and, once made, result; NoCall in a session

vars ==
  << opts, tweepy_stall_warnings, pc, now, running, first_message_received,
     status_count, rows, kwargs, calls, sleeps, ended, logged, last, call >>

NoKwargs ==
  [error |-> "", track |-> FALSE, stall_warnings |-> FALSE, locations |-> <<>>]

NoCall == [fn |-> "", done |-> FALSE]

NoMessage ==
  [ contains |-> {}, json_ok |-> TRUE, tweet |-> PlainTweet,
    entry_stop |-> FALSE, evaluated |-> <<>>, invoked |-> <<>>,
    ret |-> "None", reraised |-> FALSE, row |-> NoRow ]

Init ==
  /\ opts \in Configs
  /\ tweepy_stall_warnings \in BOOLEAN
  /\ (~opts.stall_warnings => tweepy_stall_warnings)
  /\ pc = "Idle"
  /\ now = StartTime
  /\ running = TRUE
  /\ first_message_received = None
  /\ status_count = 0
  /\ rows = 0
  /\ kwargs = NoKwargs
  /\ calls = 0
  /\ sleeps = 0
  /\ ended = ""
  /\ logged = ""
  /\ last = NoMessage
  /\ call = NoCall

\* ------------------------------------------------------ process_tweets
\* streamer.filter(**kwargs): a tweepy without the stall_warnings parameter
\* raises TypeError naming it.
streamer_filter(kw, supported) ==
  IF kw.stall_warnings /\ ~supported THEN "TypeError" ELSE ""

\* The except TypeError clause calls streamer.filter(track=track); no name
\* track is bound in process_tweets or in the module, so evaluating the
\* argument raises NameError before any call is made.
stall_warnings_fallback == "NameError"

\* The except clauses with IOError always fatal.
except_clauses_io_fatal(exc, terminate_on_error, run) ==
  IF exc = "" THEN run ELSE FALSE

\* The except clauses with terminate_on_error not consulted.
except_clauses_io_retries(exc, terminate_on_error, run) ==
  IF exc \in {"", "IOError"} THEN run ELSE FALSE

\* The except clauses with every exception fatal only under
\* terminate_on_error.
except_clauses_fatal_on_request(exc, terminate_on_error, run) ==
  IF exc = "" THEN run
  ELSE IF terminate_on_error THEN FALSE ELSE run

\* The except clauses of the loop body: listener.running after exception exc
\* ("" when streamer.filter returned).
except_clauses(exc, terminate_on_error, run) ==
  CASE exc = "" -> run
    [] exc = "IOError" -> IF terminate_on_error THEN FALSE ELSE run
    [] exc = "KeyboardInterrupt" -> FALSE
    [] OTHER -> FALSE

\* What the except clause that catches exc logs with logger.exception, at
\* level ERROR; "" for no log call.
except_logs(exc) ==
  CASE exc = "" -> ""
    [] exc = "IOError" -> "Caught IOError"
    [] exc = "KeyboardInterrupt" -> ""
    [] OTHER -> "Unexpected exception."

\* The end of the loop body and the loop test: sleep and go round again
\* while listener.running, else leave the loop.
loop_end(run) == IF run THEN "Sleeping" ELSE "Terminated"

\* streamer.filter has ended with exception exc ("" for a plain return).
FilterEnds(exc, run) ==
  LET run1 == except_clauses(exc, opts.terminate_on_error, run) IN
  /\ running' = run1
  /\ pc' = loop_end(run1)
  /\ sleeps' = IF run1 THEN sleeps + 1 ELSE sleeps
  /\ ended' = IF exc = "" THEN "return" ELSE exc
  /\ logged' = except_logs(exc)

\* The loop test and the call of streamer.filter.
CallFilter(kw) ==
  IF ~running THEN
    /\ pc' = "Terminated"
    /\ UNCHANGED <<running, calls, sleeps, ended, logged>>
  ELSE
    /\ calls' = calls + 1
    /\ IF streamer_filter(kw, tweepy_stall_warnings) = "TypeError"
         THEN FilterEnds(stall_warnings_fallback, running)
         ELSE /\ pc' = "Connecting"
              /\ ended' = ""
              /\ logged' = ""
              /\ UNCHANGED <<running, sleeps>>

\* process_tweets up to the first call of streamer.filter.
Start ==
  /\ pc = "Idle"
  /\ LET a == make_filter_args(opts) IN
     IF a.error /= ""
       THEN /\ running' = FALSE
            /\ pc' = "Terminated"
            /\ UNCHANGED <<kwargs, calls, sleeps, ended, logged>>
       ELSE /\ kwargs' = a
            /\ CallFilter(a)
  /\ UNCHANGED <<call, opts, tweepy_stall_warnings, now, first_message_received,
                 status_count, rows, last>>

\* time.sleep(5) returns; the loop goes round.
Wake ==
  /\ pc = "Sleeping"
  /\ calls < MaxCalls
  /\ now' = now + SLEEP_SECS
  /\ CallFilter(kwargs)
  /\ last' = NoMessage
  /\ UNCHANGED <<call, opts, tweepy_stall_warnings, first_message_received,
                 status_count, rows, kwargs>>

\* ------------------------------------------------------- the transport
InFilter == pc \in {"Connecting", "Streaming"}

Connected ==
  /\ pc = "Connecting"
  /\ pc' = "Streaming"
  /\ UNCHANGED <<call, opts, tweepy_stall_warnings, now, running,
                 first_message_received, status_count, rows, kwargs, calls,
                 sleeps, ended, logged, last>>

StatusCodes == {401, 420, 503}

\* A response other than 200: tweepy calls on_error and leaves its loop when
\* on_error returns False, else it retries.
HttpError ==
  /\ pc = "Connecting"
  /\ \E status_code \in StatusCodes :
       LET r == on_error(running, status_code) IN
       IF r.ret = "False"
         THEN FilterEnds("", r.running)
         ELSE UNCHANGED <<running, pc, sleeps, ended, logged>>
  /\ UNCHANGED <<call, opts, tweepy_stall_warnings, now, first_message_received,
                 status_count, rows, kwargs, calls, last>>

Raises(exc) ==
  /\ InFilter
  /\ FilterEnds(exc, running)
  /\ UNCHANGED <<call, opts, tweepy_stall_warnings, now, first_message_received,
                 status_count, rows, kwargs, calls, last>>

TransportIOError == Raises("IOError")
Interrupt == Raises("KeyboardInterrupt")
UnexpectedException == Raises("Exception")
FilterReturns == Raises("")

\* tweepy hands a raw message to on_data.  A False from on_data ends the
\* read loop and streamer.filter returns; an exception out of a handler ends
\* the read loop too and is raised out of streamer.filter, or, with a tweepy
\* that swallows it, streamer.filter returns.
OnDataFrom(messages) ==
  /\ pc = "Streaming"
  /\ \E data \in messages, reraised \in BOOLEAN :
       LET r == on_data(opts, first_message_received, now, running,
                        status_count, rows, data) IN
       /\ r.out.status_count <= MaxStatus
       /\ (r.out.ret /= "raise" => reraised)
       /\ first_message_received' = r.first_message_received
       /\ status_count' = r.out.status_count
       /\ rows' = r.out.rows
       /\ last' = [ contains |-> data.contains, json_ok |-> data.json_ok,
                    tweet |-> data.tweet,
                    entry_stop |-> r.entry_stop, evaluated |-> r.evaluated,
                    invoked |-> [i \in 1..Len(r.invoked) |->
                                   recognizers[r.invoked[i]].handler_method],
                    ret |-> r.out.ret,
                    reraised |-> reraised,
                    row |-> r.out.row ]
       /\ CASE r.out.ret = "None" ->
                 /\ running' = r.out.running
                 /\ pc' = "Dispatched"
                 /\ UNCHANGED <<sleeps, ended, logged>>
            [] r.out.ret = "False" -> FilterEnds("", r.out.running)
            [] OTHER ->
                 FilterEnds(IF reraised THEN "Exception" ELSE "", r.out.running)
  /\ UNCHANGED <<call, opts, tweepy_stall_warnings, now, kwargs, calls>>

OnData == OnDataFrom(RawMessages)

\* Seconds the clock has ticked apart from the sleeps.
Ticks == now - StartTime - SLEEP_SECS * (calls - 1)

\* on_data has returned None: tweepy's read loop reads on.
ReadOn ==
  /\ pc = "Dispatched"
  /\ pc' = "Streaming"
  /\ last' = NoMessage
  /\ UNCHANGED <<call, opts, tweepy_stall_warnings, now, running,
                 first_message_received, status_count, rows, kwargs, calls,
                 sleeps, ended, logged>>

Tick ==
  /\ InFilter
  /\ Ticks < MaxTicks
  /\ now' = now + 1
  /\ UNCHANGED <<call, opts, tweepy_stall_warnings, pc, running,
                 first_message_received, status_count, rows, kwargs, calls,
                 sleeps, ended, logged, last>>

Next ==
  \/ Start
  \/ Wake
  \/ Connected
  \/ HttpError
  \/ TransportIOError
  \/ Interrupt
  \/ UnexpectedException
  \/ FilterReturns
  \/ OnData
  \/ ReadOn
  \/ Tick

Spec == Init /\ [][Next]_vars

\* --------------------------- the session with a stream that keeps going
\* The clock goes on ticking while a configured duration has not elapsed
\* since the first message.
LiveTick ==
  /\ InFilter
  /\ opts.duration /= None
  /\ first_message_received /= None
  /\ now - first_message_received < opts.duration
  /\ now' = now + 1
  /\ UNCHANGED <<call, opts, tweepy_stall_warnings, pc, running,
                 first_message_received, status_count, rows, kwargs, calls,
                 sleeps, ended, logged, last>>

\* The messages of such a stream: statuses that decode, and now and then a
\* message no recognizer knows.
LiveStatuses ==
  { m \in RawMessages : m.contains = {STATUS_KEY} /\ m.json_ok /\ m.tweet = PlainTweet }
LiveMessages ==
  LiveStatuses \cup { m \in RawMessages : m.contains = {} /\ m.json_ok }

\* The transport hands on_data a status that decodes.
Deliver == OnDataFrom(LiveStatuses)

\* The transport fails at most so often that every sleep is followed by a
\* call of streamer.filter within MaxCalls.
Reconnects == pc' = "Sleeping" => calls' < MaxCalls

LiveInit ==
  /\ Init
  /\ DefaultLocation(opts) /\ DefaultFilter(opts)
  /\ DefaultLoop(opts) /\ DefaultOutput(opts)

LiveNext ==
  \/ Start /\ Reconnects
  \/ Wake /\ Reconnects
  \/ Connected
  \/ HttpError /\ Reconnects
  \/ TransportIOError /\ Reconnects
  \/ Interrupt
  \/ UnexpectedException
  \/ FilterReturns /\ Reconnects
  \/ OnDataFrom(LiveMessages) /\ Reconnects
  \/ ReadOn
  \/ Tick
  \/ LiveTick

\* process_tweets runs in one thread and every call it makes returns: the
\* loop starts, a sleep ends, the read loop reads on.  The stream connects,
\* never falls silent and keeps delivering statuses, and time advances.
LiveSpec ==
  /\ LiveInit
  /\ [][LiveNext]_vars
  /\ WF_vars(Start /\ Reconnects)
  /\ WF_vars(Wake /\ Reconnects)
  /\ WF_vars(Connected)
  /\ WF_vars(ReadOn)
  /\ WF_vars(OnDataFrom(LiveMessages) /\ Reconnects)
  /\ SF_vars(LiveTick)
  /\ SF_vars(Deliver /\ Reconnects)

\* ------------------------------------- the conversions on their own
\* duration_type is applied by argparse to the argument of --duration before
\* process_tweets starts; the alias lookup is applied to a name, in the
\* table of the program or in a given table.
session_vars ==
  << opts, tweepy_stall_warnings, pc, now, running, first_message_received,
     status_count, rows, kwargs, calls, sleeps, ended, logged, last >>

DefaultOptions ==
  CHOOSE o \in Options :
    /\ DefaultLocation(o) /\ DefaultFilter(o) /\ DefaultStop(o)
    /\ DefaultLoop(o) /\ DefaultOutput(o) /\ ~o.stall_warnings

DigitStrings == UNION { [1..n -> {"0", "1", "5"}] : n \in 0..MaxDigits }
Codes ==
  { <<>>, <<"s">>, <<"m">>, <<"h">>, <<"d">>, <<"H">>, <<"x">>, <<" ">>,
    <<"m", "s">>, <<" ", "h">> }
DurationArgs ==
  { d \o c : d \in DigitStrings, c \in Codes } \cup { <<"a", "b", "c">> }

AliasNames == {"a", "b", "c"}
AliasTables == [AliasNames -> {"<box>", "<absent>", "A"} \cup AliasNames]
LookupNames == {"a", "A", "c", "zz"}
ProgramLookupNames ==
  {"any", "all", "ALL", "global", "usa", "Usa", "contintental_usa", "paris"}

CallsToMake ==
  [fn : {"duration_type"}, value : DurationArgs, done : {FALSE},
   result : {<<>>}]
  \cup [fn : {"lookup_location_query_macro"}, name : ProgramLookupNames,
        done : {FALSE}, result : {<<>>}]
  \cup [fn : {"lookup_location_query_macro_in"}, table : AliasTables,
        name : LookupNames, done : {FALSE}, result : {<<>>}]

ConvInit ==
  /\ opts = DefaultOptions
  /\ tweepy_stall_warnings = TRUE
  /\ pc = "CommandLine"
  /\ now = StartTime
  /\ running = TRUE
  /\ first_message_received = None
  /\ status_count = 0
  /\ rows = 0
  /\ kwargs = NoKwargs
  /\ calls = 0
  /\ sleeps = 0
  /\ ended = ""
  /\ logged = ""
  /\ last = NoMessage
  /\ call \in CallsToMake

ParseDuration ==
  /\ call.fn = "duration_type"
  /\ ~call.done
  /\ call' = [call EXCEPT !.done = TRUE, !.result = duration_type(call.value)]
  /\ UNCHANGED session_vars

LookupMacro ==
  /\ call.fn = "lookup_location_query_macro"
  /\ ~call.done
  /\ call' = [call EXCEPT !.done = TRUE,
                          !.result = lookup_location_query_macro(call.name)]
  /\ UNCHANGED session_vars

LookupMacroIn ==
  /\ call.fn = "lookup_location_query_macro_in"
  /\ ~call.done
  /\ call' = [call EXCEPT
               !.done = TRUE,
               !.result = lookup_location_query_macro_in(call.table, call.name, 1)]
  /\ UNCHANGED session_vars

ConvNext ==
  \/ ParseDuration
  \/ LookupMacro
  \/ LookupMacroIn

ConvSpec == ConvInit /\ [][ConvNext]_vars

\* --------------------------------------------------------------- claims
\* A call of on_data has just returned.
Handled == last /= NoMessage
\* ... and its entry stop-check let the message through to the recognizers.
Dispatched == Handled /\ ~last.entry_stop
InSession == pc \in {"Connecting", "Streaming", "Dispatched"}

\* The declared priority order of the four substring recognizers, and the
\* handler each belongs to; the catch-all comes after them.
Priority == <<STATUS_KEY, LIMIT_KEY, WARNING_KEY, DISCONNECT_KEY>>
HandlerOf ==
  << "parse_status_and_dispatch", "parse_limit_and_dispatch",
     "parse_warning_and_dispatch", "on_disconnect", "on_unrecognized" >>
FirstMatch(contains) ==
  IF \E i \in 1..Len(Priority) : Priority[i] \in contains
    THEN CHOOSE i \in 1..Len(Priority) :
           /\ Priority[i] \in contains
           /\ \A j \in 1..(i - 1) : Priority[j] \notin contains
    ELSE Len(Priority) + 1

\* C1: a message that passes the entry stop-check has exactly one handler
\* invoked, the one of the first recognizer in the declared order whose
\* substring occurs in the text; the catch-all only when none of the four
\* substrings occurs; no recognizer after the matching one is evaluated.
C1_FirstMatchWins ==
  Dispatched =>
    LET k == FirstMatch(last.contains) IN
    /\ last.invoked = << HandlerOf[k] >>
    /\ last.evaluated = [i \in 1..k |-> i]
    /\ (last.invoked = <<"on_unrecognized">>
          <=> last.contains \cap MatchStrings = {})

\* A message carrying two discriminants went to the higher-priority handler.
C1_Witness ==
  /\ Dispatched
  /\ last.contains = {LIMIT_KEY, DISCONNECT_KEY}
  /\ last.invoked = <<"parse_limit_and_dispatch">>

\* C2: with a max-count limit in force (a count the program takes as
\* configured), should_stop returns true whenever more than max_tweets
\* records have matched, with or without a duration limit and a first
\* message, and false at exactly max_tweets while the duration has not elapsed.
DurationElapsed ==
  /\ opts.duration /= None
  /\ first_message_received /= None
  /\ now - first_message_received >= opts.duration
C2_CountStop ==
  (InSession /\ Truthy(opts.max_tweets)) =>
    /\ status_count > opts.max_tweets =>
         should_stop(opts, first_message_received, now, status_count)
    /\ (status_count = opts.max_tweets /\ ~DurationElapsed) =>
         ~should_stop(opts, first_message_received, now, status_count)

\* C3: with a duration limit D configured (D = 0 included) and the first
\* message received at T0, a stop-check made at a time >= T0 + D stops the
\* listener: after that call of on_data the session is not streaming.
C3_DurationStop ==
  (Handled /\ DurationElapsed) =>
    (last.entry_stop /\ ~running /\ ~InSession)

\* C4: with a max-count limit N in force no more than N records are ever
\* written to the primary output.
C4_AtMostMaxTweets ==
  Truthy(opts.max_tweets) => rows <= opts.max_tweets

\* C5: a message that matches one of the four categories and fails JSON
\* decoding never ends the session: running stays true and the loop does
\* not terminate.
Malformed ==
  /\ Dispatched
  /\ ~last.json_ok
  /\ last.invoked /= <<"on_unrecognized">>
C5_MalformedContinues ==
  Malformed => (running /\ pc /= "Terminated")

\* C6: without terminate_on_error an IOError out of streamer.filter leaves
\* running true and starts exactly one sleep and no call; the sleep lasts
\* SLEEP_SECS and ends in exactly one new call of streamer.filter; a session
\* in a call has made one call more than it has slept.
IOErrorStep == ended = "" /\ ended' = "IOError"
C6_Steps ==
  /\ (IOErrorStep /\ ~opts.terminate_on_error) =>
       /\ running /\ running'
       /\ pc' = "Sleeping"
       /\ sleeps' = sleeps + 1
       /\ calls' = calls
  /\ (pc = "Sleeping" /\ pc' /= "Sleeping") =>
       /\ running'
       /\ pc' = "Connecting"
       /\ calls' = calls + 1
       /\ sleeps' = sleeps
       /\ now' = now + SLEEP_SECS
C6_Counts ==
  /\ InSession => calls = sleeps + 1
  /\ pc = "Sleeping" => (running /\ calls = sleeps)
C7_Steps ==
  (IOErrorStep /\ opts.terminate_on_error) =>
    /\ ~running'
    /\ pc' = "Terminated"
    /\ sleeps' = sleeps
    /\ calls' = calls
C7_IOErrorFatal ==
  /\ []((ended = "IOError" /\ opts.terminate_on_error) => pc = "Terminated")
  /\ [][C7_Steps]_vars

C7_Witness ==
  /\ opts.terminate_on_error
  /\ ended = "IOError"
  /\ pc = "Terminated"
  /\ ~running
  /\ calls = 2

\* C8: running never goes back to true; once it is false the loop has
\* terminated, and from Terminated nothing happens any more: no message is
\* dispatched, no sleep is started, no call of streamer.filter is made.
C8_Steps ==
  /\ ~running => ~running'
  /\ pc = "Terminated" => UNCHANGED vars
C8_TerminatedAbsorbing ==
  /\ [](~running => pc = "Terminated")
  /\ [][C8_Steps]_vars

\* A record handler's stop signal has ended the session.
C8_Witness ==
  /\ ~running
  /\ pc = "Terminated"
  /\ Dispatched
  /\ last.ret = "False"
  /\ last.invoked = <<"parse_status_and_dispatch">>

\* C9: a TypeError for stall_warnings is answered by a retry without
\* stall_warnings, so unless something else ends the call the session stays
\* running and does not terminate.
C9_StallWarningsRetry ==
  ( /\ calls >= 1
    /\ streamer_filter(kwargs, tweepy_stall_warnings) = "TypeError"
    /\ ended \notin {"return", "IOError", "KeyboardInterrupt", "Exception"} )
  => (running /\ pc /= "Terminated")

\* C10: with an unresolved location name, a place without bounding box or a
\* malformed coordinate list the session terminates with running false
\* without a call of streamer.filter, a streaming state or a message.
ConfigError(o) ==
  \/ \E i \in 1..Len(o.locations) : o.locations[i] = "x"
  \/ o.location_query \in {"nowhere", "atlantis"}
C10_ConfigErrorFatal ==
  ConfigError(opts) =>
    /\ pc \in {"Idle", "Terminated"}
    /\ pc = "Terminated" => ~running
    /\ calls = 0
    /\ sleeps = 0
    /\ ~Handled
    /\ first_message_received = None

C10_Witness ==
  /\ opts.location_query = "nowhere"
  /\ opts.locations = <<"1", "2", "3", "4">>
  /\ pc = "Terminated"
  /\ ~running

\* A step in which on_data is called and returns.
OnDataStep == pc = "Streaming" /\ last' /= NoMessage
\* The status handler has just handled a message that decoded as a status.
StatusHandled ==
  /\ Dispatched
  /\ last.invoked = <<"parse_status_and_dispatch">>
  /\ last.json_ok
\* ... the status matched, the stop test of the handler did not fire and the
\* row was being assembled when a configured path did not resolve.
MissingField ==
  /\ StatusHandled
  /\ tweet_matchp(opts, last.tweet)
  /\ ~should_stop(opts, first_message_received, now, status_count)
  /\ opts.fields /= NoFields
  /\ \E i \in 1..Len(opts.fields) :
       opts.fields[i] = "place.name" /\ ~last.tweet.fields_found
\* The row the claim describes: one value per configured field, the marker
\* where the path does not resolve, the value found elsewhere.
ExpectedRow(fields, tweet) ==
  [i \in 1..Len(fields) |->
     IF fields[i] = "place.name"
       THEN IF tweet.fields_found THEN "<place.name>" ELSE MISSING_FIELD_VALUE
       ELSE "<text>"]
MissingFieldTerminates ==
  /\ ~running'
  /\ last'.ret = "False"
  /\ pc' = "Terminated"
  /\ rows' = rows
  /\ last'.row = NoRow
MissingFieldSubstituted ==
  /\ running'
  /\ last'.ret = "None"
  /\ pc' = "Dispatched"
  /\ rows' = rows + 1
  /\ Len(last'.row) = Len(opts.fields)
  /\ last'.row = ExpectedRow(opts.fields, last'.tweet)

\* C11 as stated: when a configured path does not resolve on a matched
\* status, under terminate_on_error the handler sets running false, returns
\* the stop signal and writes no row; otherwise the empty string stands in
\* that column, the other columns are extracted and exactly one row with one
\* value per configured field is written.
C11_Step_AsStated ==
  (OnDataStep /\ MissingField') =>
    IF opts.terminate_on_error
      THEN MissingFieldTerminates
      ELSE MissingFieldSubstituted
C11_MissingField_AsStated == [][C11_Step_AsStated]_vars

\* C11, amended: as above, but the one row is written only when the row
\* encodes; a row that fails to encode is dropped (and the session goes on).
C11_Step ==
  (OnDataStep /\ MissingField') =>
    IF opts.terminate_on_error
      THEN MissingFieldTerminates
      ELSE IF last'.tweet.encodable
        THEN MissingFieldSubstituted
        ELSE running' /\ last'.ret = "None" /\ rows' = rows /\ last'.row = NoRow
C11_MissingField == [][C11_Step]_vars

\* A row with the marker in the first column and the text in the second.
C11_Witness ==
  /\ MissingField
  /\ ~opts.terminate_on_error
  /\ last.row = <<MISSING_FIELD_VALUE, "<text>">>
  /\ rows = 2

\* The texts of the model that begin with "RT " or contain " RT ".
RetweetTexts == { <<"R", "T", " ", "x">>, <<"a", " ", "R", "T", " ", "b">> }
IsRetweet(tweet) == tweet.retweeted_status \/ tweet.text \in RetweetTexts
Matches(o, tweet) ==
  /\ ~(o.no_retweets /\ IsRetweet(tweet))
  /\ (o.user_lang = {} \/ tweet.lang \in o.user_lang)

\* C12: tweet_matchp is true exactly when not (no_retweets and the status is
\* a retweet) and (the language set is empty or holds the user's language),
\* a retweet being a status with a retweet-of reference or a text that
\* begins with "RT " or contains " RT "; and a status the handler is given
\* counts as matched exactly then.
C12_Step ==
  (OnDataStep /\ StatusHandled') =>
    /\ Matches(opts, last'.tweet) => status_count' = status_count + 1
    /\ ~Matches(opts, last'.tweet) =>
         /\ status_count' = status_count
         /\ rows' = rows
         /\ last'.row = NoRow
C12_FilterMatch ==
  /\ [](\A tweet \in Tweets : tweet_matchp(opts, tweet) <=> Matches(opts, tweet))
  /\ [][C12_Step]_vars

\* "RT x" without a retweet-of reference, excluded under no_retweets.
C12_Witness ==
  /\ StatusHandled
  /\ opts.no_retweets
  /\ last.tweet.text = <<"R", "T", " ", "x">>
  /\ ~last.tweet.retweeted_status
  /\ last.tweet.lang \in opts.user_lang
  /\ status_count = 0
  /\ rows = 0

\* The units of the claim and their seconds.
Units == { <<>>, <<"s">>, <<"m">>, <<"h">>, <<"d">> }
UnitSeconds(unit) ==
  CASE unit = <<>> -> 1 [] unit = <<"s">> -> 1 [] unit = <<"m">> -> 60
    [] unit = <<"h">> -> 3600 [] OTHER -> 86400
\* The number a digit string writes, most significant digit first.
RECURSIVE Number(_, _)
Number(digits, acc) ==
  IF digits = <<>> THEN acc
  ELSE Number(Tail(digits), 10 * acc + DigitValue(Head(digits)))

\* C13: duration_type maps "n" and "ns" to n, "nm" to 60 n, "nh" to 3600 n
\* and "nd" to 86400 n seconds, and fails with the parse error on an input
\* that does not begin with a number.
C13_DurationParse ==
  (call.fn = "duration_type" /\ call.done) =>
    /\ \A d \in DigitStrings \ {<<>>}, u \in Units :
         call.value = d \o u =>
           call.result = [error |-> "", seconds |-> Number(d, 0) * UnitSeconds(u)]
    /\ (call.value = <<>> \/ call.value[1] \notin Digits) =>
         call.result.error = "ArgumentTypeError"

\* What following the indirections of a table by hand gives: the box
\* reached, None for a name without entry, or "cycle" when more hops are
\* needed than the table has names.
RECURSIVE Follow(_, _, _)
Follow(table, name, hops) ==
  LET key == Lower(name)
      v == IF key \in DOMAIN table THEN table[key] ELSE "<absent>"
  IN
  IF v = "<absent>" THEN <<"None">>
  ELSE IF v = "<box>" THEN <<"box", key>>
  ELSE IF hops = 0 THEN <<"cycle">>
  ELSE Follow(table, v, hops - 1)

MalformedWarning ==
  /\ Dispatched
  /\ last.invoked = <<"parse_warning_and_dispatch">>
  /\ ~last.json_ok
C15_WarningDecodeContinues ==
  MalformedWarning => (last.ret = "None" /\ running /\ pc = "Dispatched")

\* C16: status_count is the number of records written to the primary
\* output: it never decreases, it goes up by one exactly in a step that
\* writes a record, and not for a record filtered out, dropped on an
\* encoding failure or withheld by the stop test or a missing field.
C16_Step ==
  /\ status_count' >= status_count
  /\ (status_count' = status_count + 1) <=> (rows' = rows + 1)
  /\ (status_count' /= status_count) => (OnDataStep /\ last'.row /= NoRow)
C16_CountIsEmitted == [](status_count = rows) /\ [][C16_Step]_vars

\* C17: first_message_received is None until on_data is first called; that
\* call sets it to the time of the call, and the stop-check of the same call
\* reads the value set; no later step of any kind changes it.
C17_Step ==
  /\ OnDataStep =>
       /\ first_message_received' /= None
       /\ first_message_received = None => first_message_received' = now
       /\ last'.entry_stop =
            should_stop(opts, first_message_received', now, status_count)
  /\ first_message_received /= None =>
       first_message_received' = first_message_received
  /\ ~OnDataStep => first_message_received' = first_message_received
C17_Unset ==
  /\ (pc = "Idle" \/ (pc = "Connecting" /\ calls = 1)) =>
       first_message_received = None
  /\ Handled => first_message_received /= None
  /\ first_message_received /= None =>
       (first_message_received >= StartTime /\ first_message_received <= now)
C17_FirstMessageOnce == []C17_Unset /\ [][C17_Step]_vars

\* A message handled in a later call of streamer.filter, after a sleep, with
\* the timestamp of the first message still in place.
C17_Witness ==
  /\ Handled
  /\ calls = 2
  /\ first_message_received /= None
  /\ first_message_received < now - SLEEP_SECS

\* A message that is none of the program's business to act on: a rate-limit
\* notice, stall warning or disconnect notice that decodes, a message no
\* recognizer knows, or a status that decodes and is excluded by the filter.
Passive ==
  /\ Dispatched
  /\ \/ /\ last.json_ok
        /\ last.invoked \in { <<"parse_limit_and_dispatch">>,
                              <<"parse_warning_and_dispatch">>,
                              <<"on_disconnect">> }
     \/ last.invoked = <<"on_unrecognized">>
     \/ StatusHandled /\ ~Matches(opts, last.tweet)

\* C18: such a message, when the entry stop-check has let it through, leaves
\* running and status_count as they were, writes nothing to the primary
\* output and lets the read loop go on.
C18_Step ==
  (OnDataStep /\ Passive') =>
    /\ running' = running
    /\ status_count' = status_count
    /\ rows' = rows
    /\ last'.row = NoRow
    /\ last'.ret = "None"
    /\ pc' = "Dispatched"
C18_PassiveMessages == [][C18_Step]_vars

\* A status excluded by the filter after one that was written.
C18_Witness ==
  /\ StatusHandled
  /\ ~Matches(opts, last.tweet)
  /\ running
  /\ pc = "Dispatched"
  /\ status_count = 1
  /\ rows = 1

\* C19: KeyboardInterrupt and any exception other than IOError out of
\* streamer.filter set running false whatever terminate_on_error is; the
\* loop terminates without a sleep and without another call; the exception
\* is logged as an error, the interrupt is not.
Fatal(exc) == exc \notin {"", "return", "IOError"}
C19_Step ==
  (ended = "" /\ Fatal(ended')) =>
    /\ ~running'
    /\ pc' = "Terminated"
    /\ sleeps' = sleeps
    /\ InFilter => calls' = calls
    /\ IF ended' = "KeyboardInterrupt"
         THEN logged' = ""
         ELSE logged' = "Unexpected exception."
C19_Terminated ==
  Fatal(ended) =>
    /\ ~running
    /\ pc = "Terminated"
    /\ (logged = "") = (ended = "KeyboardInterrupt")
C19_InterruptAndUnexpected == []C19_Terminated /\ [][C19_Step]_vars

\* An interrupt in the second call, without terminate_on_error.
C19_Witness ==
  /\ ended = "KeyboardInterrupt"
  /\ ~opts.terminate_on_error
  /\ ~running
  /\ pc = "Terminated"
  /\ logged = ""
  /\ calls = 2
  /\ sleeps = 1

\* C20: with a max-count limit or a duration limit configured (a count the
\* program takes as configured, a duration of any length, 0 included), a
\* session whose stream keeps delivering matching statuses while time
\* advances eventually sets running false and terminates.
LimitConfigured == opts.duration /= None \/ Truthy(opts.max_tweets)
C20_StopPolicyLive ==
  LimitConfigured => <>(~running /\ pc = "Terminated")

\* The same for the limits should_stop takes as set: a duration or a count
\* other than 0.
StopPolicyLiveWhenInForce ==
  (Truthy(opts.duration) \/ Truthy(opts.max_tweets)) =>
    <>(~running /\ pc = "Terminated")

====
